---- MODULE Spec2Model ----
(***************************************************************************)
(* Model of the chat server of arcadia (package chat): the lazy selection  *)
(* of the storage backend (ChatServer.Storage) and one chat turn           *)
(* (ChatServer.AppRun), run by concurrent sessions against one ChatServer, *)
(* and the listing, reading and deleting operations of the ChatServer;     *)
(* and the paginated listing of datasources (ListDatasources).             *)
(***************************************************************************)
EXTENDS Integers, Sequences, FiniteSets, TLC

\* ------------------------------------------------------------------ bounds
\* Total number of AppRun calls issued over one behaviour.
MaxCalls == 3

\* The concurrent sessions (goroutines serving chat requests).
Sessions == {"s1", "s2"}

\* Request inputs.
ConvIDs == {"c1"}
MsgIDs == {"m1", "m2"}
Queries == {"q1"}
Users == {"u1"}
Debugs == {FALSE}
AppNames == {"app"}
AppNamespaces == {"ns"}

\* Outputs of the application runner: answer text and references (<<>> is nil).
Answers == {"a1", "a2"}
RefLists == {<<>>}

\* Total number of ChatServer calls issued by the single session of SpecSolo.
MaxOps == 2

\* The single session of SpecSolo, and its inputs: anonymous and authenticated
\* callers, two applications in two namespaces, both debug flags, runs with
\* and without references.
Solo == {"s1"}
SoloUsers == {"", "u1", "u2"}
SoloAppNames == {"app", "app2"}
SoloAppNamespaces == {"ns", "ns2"}
SoloMsgIDs == {"m1"}
SoloAnswers == {"a1"}
SoloRefLists == {<<>>, <<"r1">>}

\* The most datasources a namespace holds in SpecList.
MaxItems == 3

\* The inputs of ListDatasources. Strings are sequences of characters. The
\* listed objects are datasources as the API server stores them: each
\* converts to the Datasource type. Creation timestamps may coincide.
DatasourceNames == {<<"a">>, <<"a", "b">>}
DisplayNames == {<<>>, <<"b">>}
Timestamps == 1..2
Keywords == {<<>>, <<"a">>, <<"b">>, <<"b", "a">>}
PageNumbers == 0..3
PageSizes == 0..2

\* ------------------------------------------------------------------ values
Nil == 0
NoConv == [none |-> TRUE]
NoReq == [none |-> TRUE]
NoOut == [none |-> TRUE]
NoResp == [none |-> TRUE]
\* Nothing invoked yet: the outcome of resolving the application, the number of
\* Storage() calls, the outcomes of the lookup, of obtaining the runner, of the
\* run and of UpdateConversation, the number of UpdateConversation calls, and
\* the IDs of the messages other sessions persisted under the same
\* conversation ID during the call.
\* For the other operations: which one was called and the fields its
\* repository call was restricted by. ctx is the state of the caller's context.
NoTrace ==
    [app |-> "none", storage |-> 0, find |-> "none", newapp |-> "none", run |-> "none",
     update |-> "none", updates |-> 0, raced |-> {}, ctx |-> "live", op |-> "none",
     opts |-> {}]
NoMsg == [none |-> TRUE]
NoPage == [none |-> TRUE]
NoResult == [none |-> TRUE]
NoRet == [resp |-> NoResp, trace |-> NoTrace]
EmptyStore == [c \in ConvIDs |-> NoConv]

VARIABLES
    storage,    \* cs.storage: Nil or the index of a backend instance
    once,       \* cs.once: "idle", "running" or "done"
    backends,   \* the backend instances constructed so far, by kind
    db,         \* the contents of each backend instance: conversation ID -> conversation
    failed,     \* TRUE once a probe step of the one-shot initialization has failed
    probes,     \* how many times the relational datasource discovery was invoked
    returned,   \* the backend instances Storage() has returned so far
    pc,         \* position of each session
    after,      \* where a session continues when its Storage() call returns
    seen,       \* the value of cs.storage a session read at the nil check
    sb,         \* the backend the session's last Storage() call returned
    req,        \* the request of the session's current call
    conv,       \* the session's local conversation
    history,    \* the session's chat message history
    out,        \* the runner's output
    prior,      \* the Messages of the conversation the lookup returned
    trace,      \* what the session's current AppRun call has invoked, by collaborator,
                \* and the IDs of the messages other sessions persisted meanwhile
    ret,        \* the latest return of a call: what it returned, and its trace
    ncalls,     \* calls begun so far
    paged       \* a ListDatasources call: its input, the objects in the namespace,
                \* the items as sorted, its result

vars == <<storage, once, backends, db, failed, probes, returned, pc, after, seen, sb,
          req, conv, history, out, prior, trace, ret, ncalls, paged>>

selector == <<storage, once, backends, db, failed, probes>>
locals == <<req, conv, history, out, prior, ret, ncalls>>

\* ------------------------------------------------------------------ storage backends
\* storage.NewMemoryStorage(): a fresh, empty in-memory backend is constructed
\* and assigned to cs.storage.
UseMemoryStorage ==
    /\ backends' = Append(backends, "memory")
    /\ db' = Append(db, EmptyStore)
    /\ storage' = Len(backends) + 1

\* cs.storage = db: the relational backend built on the acquired connection.
UsePostgreSQLStorage ==
    /\ backends' = Append(backends, "postgres")
    /\ db' = Append(db, EmptyStore)
    /\ storage' = Len(backends) + 1

Bump(t, f) == [t EXCEPT ![f] = @ + 1]
Note(t, f, v) == [t EXCEPT ![f] = v]

\* ------------------------------------------------------------------ ChatServer.Storage
\* Entry of Storage(): the caller continues at next when it returns.
CallStorage(p, next) ==
    /\ pc' = [pc EXCEPT ![p] = "st_check"]
    /\ after' = [after EXCEPT ![p] = next]

\* if cs.storage == nil: an unsynchronized read of the field.
StorageCheck(p) ==
    /\ pc[p] = "st_check"
    /\ seen' = [seen EXCEPT ![p] = storage]
    /\ pc' = [pc EXCEPT ![p] = IF storage = Nil THEN "st_once" ELSE "st_ret"]
    /\ UNCHANGED <<selector, returned, paged, after, sb, locals, trace>>

\* Variant: no one-shot guard, every caller that passed the nil check runs f.
OnceDoAgain(p) ==
    /\ pc[p] = "st_once"
    /\ once # "running"
    /\ once' = "running"
    /\ pc' = [pc EXCEPT ![p] = "probe_discover"]
    /\ UNCHANGED <<storage, backends, db, failed, probes, returned, paged, after, seen, sb, locals, trace>>

\* cs.once.Do(f): the first caller runs f, a caller arriving while f runs
\* blocks until it has returned, a later caller returns at once.
OnceDo(p) ==
    /\ pc[p] = "st_once"
    /\ once # "running"
    /\ IF once = "idle"
          THEN /\ once' = "running"
               /\ pc' = [pc EXCEPT ![p] = "probe_discover"]
          ELSE /\ once' = once
               /\ pc' = [pc EXCEPT ![p] = "st_ret"]
    /\ UNCHANGED <<storage, backends, db, failed, probes, returned, paged, after, seen, sb, locals, trace>>

\* pkgconfig.GetRelationalDatasource: on an error or no datasource the memory
\* backend is assigned, and the function goes on to the pool lookup.
ProbeDatasource(p) ==
    /\ pc[p] = "probe_discover"
    /\ probes' = probes + 1
    /\ \E r \in {"ok", "error", "none"} :
          /\ failed' = (failed \/ r # "ok")
          /\ IF r = "ok"
                THEN UNCHANGED <<storage, backends, db>>
                ELSE UseMemoryStorage
    /\ pc' = [pc EXCEPT ![p] = "probe_pool"]
    /\ UNCHANGED <<once, returned, paged, after, seen, sb, locals, trace>>

\* A probe step that failed: memory backend, and the function passed to Do returns.
ProbeFailed(p) ==
    /\ UseMemoryStorage
    /\ once' = "done"
    /\ pc' = [pc EXCEPT ![p] = "st_ret"]

\* datasource.GetPostgreSQLPool
ProbePool(p) ==
    /\ pc[p] = "probe_pool"
    /\ \E r \in {"ok", "error"} :
          /\ failed' = (failed \/ r # "ok")
          /\ IF r = "ok"
                THEN /\ pc' = [pc EXCEPT ![p] = "probe_acquire"]
                     /\ UNCHANGED <<storage, backends, db, once>>
                ELSE ProbeFailed(p)
    /\ UNCHANGED <<probes, returned, paged, after, seen, sb, locals, trace>>

\* pg.Pool.Acquire
ProbeAcquire(p) ==
    /\ pc[p] = "probe_acquire"
    /\ \E r \in {"ok", "error"} :
          /\ failed' = (failed \/ r # "ok")
          /\ IF r = "ok"
                THEN /\ pc' = [pc EXCEPT ![p] = "probe_construct"]
                     /\ UNCHANGED <<storage, backends, db, once>>
                ELSE ProbeFailed(p)
    /\ UNCHANGED <<probes, returned, paged, after, seen, sb, locals, trace>>

\* storage.NewPostgreSQLStorage, and on success cs.storage = db.
ProbeConstruct(p) ==
    /\ pc[p] = "probe_construct"
    /\ \E r \in {"ok", "error"} :
          /\ failed' = (failed \/ r # "ok")
          /\ IF r = "ok"
                THEN /\ UsePostgreSQLStorage
                     /\ once' = "done"
                     /\ pc' = [pc EXCEPT ![p] = "st_ret"]
                ELSE ProbeFailed(p)
    /\ UNCHANGED <<probes, returned, paged, after, seen, sb, locals, trace>>

\* The values the read of cs.storage in "return cs.storage" can produce. A
\* caller that went through once.Do is ordered after the initialization and
\* reads the field as it is. A caller that found the field set at the nil check
\* reads it with no synchronization: the value it saw at the check (the load
\* reused) or the value the field holds now.
ReturnValues(p) == IF seen[p] = Nil THEN {storage} ELSE {seen[p], storage}

\* return cs.storage
StorageReturn(p) ==
    /\ pc[p] = "st_ret"
    /\ \E b \in ReturnValues(p) :
          /\ sb' = [sb EXCEPT ![p] = b]
          /\ returned' = returned \cup {b}
    /\ pc' = [pc EXCEPT ![p] = after[p]]
    /\ UNCHANGED <<selector, paged, after, seen, locals, trace>>

\* ------------------------------------------------------------------ conversation repository
\* storage.SearchOption: a set of (field, value) predicates, combined with AND.
Matches(c, opts) == \A o \in opts : c[o[1]] = o[2]

\* The fields a set of search options puts a predicate on.
Fields(opts) == {o[1] : o \in opts}

\* Storage.FindExistingConversation: the conversation with that ID if it
\* satisfies every predicate, else the not-found error (NoConv).
FindExistingConversation(store, id, opts) ==
    IF store[id] # NoConv /\ Matches(store[id], opts) THEN store[id] ELSE NoConv

\* Storage.UpdateConversation: upsert by conversation ID, replacing the stored
\* Messages sequence.
UpdateConversation(store, c) == [store EXCEPT ![c.ID] = c]

\* Storage.FindExistingMessage: the message with that ID in the conversation
\* FindExistingConversation gives, else the not-found error (NoMsg).
FindExistingMessage(store, id, mid, opts) ==
    LET c == FindExistingConversation(store, id, opts)
    IN IF c = NoConv \/ \A i \in 1..Len(c.Messages) : c.Messages[i].ID # mid
          THEN NoMsg
          ELSE c.Messages[CHOOSE i \in 1..Len(c.Messages) :
                             /\ c.Messages[i].ID = mid
                             /\ \A j \in 1..(i - 1) : c.Messages[j].ID # mid]

\* Storage.ListConversations: the conversations satisfying every predicate.
ListConversationsIn(store, opts) ==
    {store[c] : c \in {d \in ConvIDs : store[d] # NoConv /\ Matches(store[d], opts)}}

\* Storage.Delete: removes all conversations satisfying every predicate.
Delete(store, opts) ==
    [c \in ConvIDs |-> IF store[c] # NoConv /\ Matches(store[c], opts) THEN NoConv ELSE store[c]]

\* ------------------------------------------------------------------ ChatServer.AppRun
Requests ==
    [APPName : AppNames, AppNamespace : AppNamespaces, ConversationID : ConvIDs,
     Query : Queries, NewChat : BOOLEAN, Debug : Debugs, MessageID : MsgIDs,
     User : Users]

\* Outcomes of resolving the application: client.GetClient, the Get of the
\* application resource, its conversion, and app.Status.IsReady().
AppOutcomes == {"ready", "not_ready", "get_failed"}

\* Variant: the readiness check is skipped.
AppReadyAlways(a) == TRUE

\* The application was resolved and is ready.
AppReady(a) == a = "ready"

Outputs == [Answer : Answers, References : RefLists]

Failure(e) == [ok |-> FALSE, err |-> e]

\* Variant: the lookup always carries the user, the empty one too.
SearchOptionsAlwaysUser(r) ==
    {<<"AppName", r.APPName>>, <<"AppNamespace", r.AppNamespace>>, <<"Debug", r.Debug>>,
     <<"User", r.User>>}

\* Variant: the lookup never carries the user.
SearchOptionsNoUser(r) ==
    {<<"AppName", r.APPName>>, <<"AppNamespace", r.AppNamespace>>, <<"Debug", r.Debug>>}

\* The search options of the lookup of a continuing conversation: application
\* name, namespace and debug flag, and the user when one is authenticated.
SearchOptions(r) ==
    {<<"AppName", r.APPName>>, <<"AppNamespace", r.AppNamespace>>, <<"Debug", r.Debug>>}
       \cup (IF r.User # "" THEN {<<"User", r.User>>} ELSE {})

\* The fresh conversation of a new chat.
NewConversation(r) ==
    [ID |-> r.ConversationID, AppName |-> r.APPName, AppNamespace |-> r.AppNamespace,
     User |-> r.User, Debug |-> r.Debug, Messages |-> <<>>]

\* Variant: the messages are replayed newest first.
RECURSIVE ReplayHistoryReversed(_)
ReplayHistoryReversed(msgs) ==
    IF msgs = <<>> THEN <<>>
    ELSE ReplayHistoryReversed(Tail(msgs)) \o
         <<[role |-> "human", text |-> Head(msgs).Query],
           [role |-> "ai", text |-> Head(msgs).Answer]>>

\* history.AddUserMessage(v.Query); history.AddAIMessage(v.Answer), for each
\* message in order.
RECURSIVE ReplayHistory(_)
ReplayHistory(msgs) ==
    IF msgs = <<>> THEN <<>>
    ELSE <<[role |-> "human", text |-> Head(msgs).Query],
           [role |-> "ai", text |-> Head(msgs).Answer]>> \o ReplayHistory(Tail(msgs))

\* Variant: the new message is put in front of the stored ones.
AppendMessageFirst(c, r) ==
    [c EXCEPT !.Messages =
        <<[ID |-> r.MessageID, Query |-> r.Query, Answer |-> "", References |-> <<>>]>> \o @]

\* conversation.Messages = append(conversation.Messages, Message{ID, Query, Answer: ""})
AppendMessage(c, r) ==
    [c EXCEPT !.Messages =
        Append(@, [ID |-> r.MessageID, Query |-> r.Query, Answer |-> "", References |-> <<>>])]

\* Variant: the runner's output is not written to the last message.
SetAnswerSkipped(c, o) == c

\* The answer and references of the last message are set from the runner's output.
SetAnswer(c, o) ==
    [c EXCEPT !.Messages[Len(c.Messages)] =
        [@ EXCEPT !.Answer = o.Answer, !.References = o.References]]

\* The ChatRespBody of a successful turn.
Response(c, r, o) ==
    [ok |-> TRUE, ConversationID |-> c.ID, MessageID |-> r.MessageID,
     Message |-> o.Answer, References |-> o.References]

InCall(q) == pc[q] # "idle"

\* AppRun returns: its locals are gone, the caller holds what it returned.
Return(p, result, t, others) ==
    /\ pc' = [pc EXCEPT ![p] = "idle"]
    /\ ret' = [resp |-> result, trace |-> t]
    /\ trace' = [others EXCEPT ![p] = NoTrace]
    /\ req' = [req EXCEPT ![p] = NoReq]
    /\ conv' = [conv EXCEPT ![p] = NoConv]
    /\ history' = [history EXCEPT ![p] = <<>>]
    /\ out' = [out EXCEPT ![p] = NoOut]
    /\ prior' = [prior EXCEPT ![p] = <<>>]
    /\ after' = [after EXCEPT ![p] = "idle"]
    /\ seen' = [seen EXCEPT ![p] = Nil]
    /\ sb' = [sb EXCEPT ![p] = Nil]

\* AppRun up to the runner, with request r and the application resolved as a:
\* the application is checked for readiness; a new chat builds its
\* conversation and appends the message, a continuing chat goes to the
\* repository for it.
AppRunEnter(p, r, a) ==
    IF ~AppReady(a)
       THEN Return(p, Failure(a), Note(NoTrace, "app", a), trace)
       ELSE /\ req' = [req EXCEPT ![p] = r]
            /\ IF r.NewChat
                  THEN /\ conv' = [conv EXCEPT ![p] = AppendMessage(NewConversation(r), r)]
                       /\ pc' = [pc EXCEPT ![p] = "newapp"]
                       /\ trace' = [trace EXCEPT ![p] = Note(@, "app", a)]
                       /\ UNCHANGED after
                  ELSE /\ CallStorage(p, "find")
                       /\ trace' = [trace EXCEPT ![p] = Bump(Note(@, "app", a), "storage")]
                       /\ UNCHANGED conv
            /\ UNCHANGED <<history, out, prior, ret, seen, sb>>

\* A session calls AppRun.
AppRunBegin(p) ==
    /\ pc[p] = "idle"
    /\ ncalls < MaxCalls
    /\ ncalls' = ncalls + 1
    /\ \E r \in Requests, a \in AppOutcomes : AppRunEnter(p, r, a)
    /\ UNCHANGED <<selector, returned, paged>>

\* Variant: when the lookup finds nothing, the call goes on with a fresh
\* conversation.
FindOrCreate(p) ==
    /\ pc[p] = "find"
    /\ LET f == FindExistingConversation(db[sb[p]], req[p].ConversationID, SearchOptions(req[p]))
           c == IF f = NoConv THEN NewConversation(req[p]) ELSE f
       IN /\ prior' = [prior EXCEPT ![p] = c.Messages]
          /\ history' = [history EXCEPT ![p] = ReplayHistory(c.Messages)]
          /\ conv' = [conv EXCEPT ![p] = AppendMessage(c, req[p])]
          /\ pc' = [pc EXCEPT ![p] = "newapp"]
          /\ trace' = [trace EXCEPT ![p] = Note(@, "find", IF f = NoConv THEN "not_found" ELSE "found")]
          /\ UNCHANGED <<out, ret, req, after, seen, sb>>
    /\ UNCHANGED <<selector, returned, paged, ncalls>>

\* cs.Storage().FindExistingConversation(...): on an error AppRun returns it;
\* else the history is replayed from the stored messages and the new message
\* is appended to the conversation.
Find(p) ==
    /\ pc[p] = "find"
    /\ LET c == FindExistingConversation(db[sb[p]], req[p].ConversationID, SearchOptions(req[p]))
       IN IF c = NoConv
             THEN Return(p, Failure("not_found"), Note(trace[p], "find", "not_found"), trace)
             ELSE /\ prior' = [prior EXCEPT ![p] = c.Messages]
                  /\ history' = [history EXCEPT ![p] = ReplayHistory(c.Messages)]
                  /\ conv' = [conv EXCEPT ![p] = AppendMessage(c, req[p])]
                  /\ pc' = [pc EXCEPT ![p] = "newapp"]
                  /\ trace' = [trace EXCEPT ![p] = Note(@, "find", "found")]
                  /\ UNCHANGED <<out, ret, req, after, seen, sb>>
    /\ UNCHANGED <<selector, returned, paged, ncalls>>

\* appruntime.NewAppOrGetFromCache: on an error AppRun returns it.
NewApp(p) ==
    /\ pc[p] = "newapp"
    /\ \E r \in {"ok", "error"} :
          IF r = "ok"
             THEN /\ pc' = [pc EXCEPT ![p] = "run"]
                  /\ trace' = [trace EXCEPT ![p] = Note(@, "newapp", "ok")]
                  /\ UNCHANGED <<conv, history, out, ret, prior, req, after, seen, sb>>
             ELSE Return(p, Failure("newapp"), Note(trace[p], "newapp", "error"), trace)
    /\ UNCHANGED <<selector, returned, paged, ncalls>>

\* Variant: the conversation with the pending message is written to the
\* selected backend before the error is returned.
RunFailedPersists(p) ==
    /\ Return(p, Failure("run"), Note(trace[p], "run", "error"), trace)
    /\ db' = IF storage = Nil THEN db
             ELSE [db EXCEPT ![storage] = UpdateConversation(@, conv[p])]
    /\ UNCHANGED <<storage, once, backends, failed, probes>>

\* Variant: the error of the runner is returned only after an
\* UpdateConversation call.
RunFailedUpdates(p) ==
    /\ Return(p, Failure("run"),
              Bump(Note(Note(trace[p], "run", "error"), "update", "ok"), "updates"), trace)
    /\ db' = IF storage = Nil THEN db
             ELSE [db EXCEPT ![storage] = UpdateConversation(@, conv[p])]
    /\ UNCHANGED <<storage, once, backends, failed, probes>>

\* The runner returned an error: AppRun returns it.
RunFailed(p) ==
    /\ Return(p, Failure("run"), Note(trace[p], "run", "error"), trace)
    /\ UNCHANGED selector

\* The runner returned an output: the last message gets the answer and the
\* references, and AppRun goes to the repository to persist the conversation.
RunSucceeded(p, o) ==
    /\ out' = [out EXCEPT ![p] = o]
    /\ conv' = [conv EXCEPT ![p] = SetAnswer(@, o)]
    /\ CallStorage(p, "update")
    /\ trace' = [trace EXCEPT ![p] = Bump(Note(@, "run", "ok"), "storage")]
    /\ UNCHANGED <<selector, history, ret, prior, req, seen, sb>>

\* appRun.Run(ctx, c, respStream, Input{Question, NeedStream, History})
Run(p) ==
    /\ pc[p] = "run"
    /\ \/ RunFailed(p)
       \/ \E o \in Outputs : RunSucceeded(p, o)
    /\ UNCHANGED <<returned, paged, ncalls>>

\* Variant: the error of UpdateConversation is dropped and the response returned.
UpdateFailedSwallowed(p) ==
    /\ Return(p, Response(conv[p], req[p], out[p]),
              Bump(Note(trace[p], "update", "error"), "updates"), trace)
    /\ UNCHANGED db

\* UpdateConversation returned an error: AppRun returns it.
UpdateFailed(p) ==
    /\ Return(p, Failure("update"), Bump(Note(trace[p], "update", "error"), "updates"), trace)
    /\ UNCHANGED db

\* The sessions in a call on the same conversation ID see, in their trace,
\* the IDs of the messages p persists.
Raced(p) ==
    [q \in Sessions |->
        IF q # p /\ InCall(q) /\ req[q].ConversationID = conv[p].ID
           THEN [trace[q] EXCEPT !.raced = @ \cup {conv[p].Messages[i].ID : i \in 1..Len(conv[p].Messages)}]
           ELSE trace[q]]

\* Variant: the conversation is merged with the stored one before the write.
UpdateSucceededMerging(p) ==
    /\ db' = [db EXCEPT ![sb[p]] =
                UpdateConversation(@, [conv[p] EXCEPT !.Messages =
                    (IF db[sb[p]][conv[p].ID] = NoConv THEN <<>>
                     ELSE db[sb[p]][conv[p].ID].Messages) \o @])]
    /\ Return(p, Response(conv[p], req[p], out[p]),
              Bump(Note(trace[p], "update", "ok"), "updates"), Raced(p))

\* UpdateConversation succeeded: AppRun returns the response.
UpdateSucceeded(p) ==
    /\ db' = [db EXCEPT ![sb[p]] = UpdateConversation(@, conv[p])]
    /\ Return(p, Response(conv[p], req[p], out[p]),
              Bump(Note(trace[p], "update", "ok"), "updates"), Raced(p))

\* cs.Storage().UpdateConversation(conversation), and the return of AppRun.
Update(p) ==
    /\ pc[p] = "update"
    /\ \/ UpdateFailed(p)
       \/ UpdateSucceeded(p)
    /\ UNCHANGED <<storage, once, backends, failed, probes, returned, paged, ncalls>>

\* ------------------------------------------------------------------ specification
Init ==
    /\ storage = Nil
    /\ once = "idle"
    /\ backends = <<>>
    /\ db = <<>>
    /\ failed = FALSE
    /\ probes = 0
    /\ returned = {}
    /\ pc = [p \in Sessions |-> "idle"]
    /\ after = [p \in Sessions |-> "idle"]
    /\ seen = [p \in Sessions |-> Nil]
    /\ sb = [p \in Sessions |-> Nil]
    /\ req = [p \in Sessions |-> NoReq]
    /\ conv = [p \in Sessions |-> NoConv]
    /\ history = [p \in Sessions |-> <<>>]
    /\ out = [p \in Sessions |-> NoOut]
    /\ prior = [p \in Sessions |-> <<>>]
    /\ trace = [p \in Sessions |-> NoTrace]
    /\ ret = NoRet
    /\ ncalls = 0
    /\ paged = NoPage

Next ==
    \E p \in Sessions :
        \/ AppRunBegin(p)
        \/ StorageCheck(p)
        \/ OnceDo(p)
        \/ ProbeDatasource(p)
        \/ ProbePool(p)
        \/ ProbeAcquire(p)
        \/ ProbeConstruct(p)
        \/ StorageReturn(p)
        \/ Find(p)
        \/ NewApp(p)
        \/ Run(p)
        \/ Update(p)

Spec == Init /\ [][Next]_vars

\* ------------------------------------------------------------------ one session, all operations
\* The requests of AppRun and the outputs of the runner over the wider inputs.
SoloRequests ==
    [APPName : SoloAppNames, AppNamespace : SoloAppNamespaces, ConversationID : ConvIDs,
     Query : Queries, NewChat : BOOLEAN, Debug : BOOLEAN, MessageID : SoloMsgIDs,
     User : SoloUsers]
SoloOutputs == [Answer : SoloAnswers, References : SoloRefLists]

\* The requests of the other operations, each with the user name found in
\* the context (auth.UserNameContextKey; "" when there is none).
APPMetadata == [APPName : SoloAppNames, AppNamespace : SoloAppNamespaces, User : SoloUsers]
DeleteRequests == [ConversationID : ConvIDs, User : SoloUsers]
ConversationReqBody ==
    [APPName : SoloAppNames, AppNamespace : SoloAppNamespaces, ConversationID : ConvIDs,
     User : SoloUsers]
MessageReqBody ==
    [APPName : SoloAppNames, AppNamespace : SoloAppNamespaces, ConversationID : ConvIDs,
     MessageID : MsgIDs, User : SoloUsers]

\* The session calls AppRun.
SoloAppRun(p) ==
    /\ pc[p] = "idle"
    /\ ncalls < MaxOps
    /\ ncalls' = ncalls + 1
    /\ \E r \in SoloRequests, a \in AppOutcomes : AppRunEnter(p, r, a)
    /\ UNCHANGED <<selector, returned, paged>>

\* The caller's context is cancelled, or its deadline passes, while the call
\* of the runner is outstanding.
Cancel(p) ==
    /\ pc[p] = "run"
    /\ trace[p].ctx = "live"
    /\ trace' = [trace EXCEPT ![p] = Note(@, "ctx", "cancelled")]
    /\ UNCHANGED <<selector, returned, paged, pc, after, seen, sb, locals>>

\* appRun.Run(ctx, ...) over the wider outputs: the runner returns an error
\* or an output, whatever the state of the context.
SoloRun(p) ==
    /\ pc[p] = "run"
    /\ \/ RunFailed(p)
       \/ \E o \in SoloOutputs : RunSucceeded(p, o)
    /\ UNCHANGED <<returned, paged, ncalls>>

\* One of the other operations is called with request r: its first step is
\* cs.Storage(), and it continues at next.
Enter(p, r, op, next) ==
    /\ ncalls < MaxOps
    /\ ncalls' = ncalls + 1
    /\ req' = [req EXCEPT ![p] = r]
    /\ CallStorage(p, next)
    /\ trace' = [trace EXCEPT ![p] = Bump(Note(@, "op", op), "storage")]
    /\ UNCHANGED <<selector, returned, paged, conv, history, out, prior, ret, seen, sb>>

\* WithAppNamespace(req.AppNamespace), WithAppName(req.APPName),
\* WithUser(currentUser), WithUser(currentUser)
ListConversationsOptions(r) ==
    {<<"AppNamespace", r.AppNamespace>>, <<"AppName", r.APPName>>, <<"User", r.User>>}

\* WithConversationID(conversationID), WithUser(currentUser)
DeleteConversationOptions(r) == {<<"ID", r.ConversationID>>, <<"User", r.User>>}

\* WithAppNamespace(req.AppNamespace), WithAppName(req.APPName),
\* WithAppNamespace(req.AppNamespace), WithUser(currentUser)
ListMessagesOptions(r) ==
    {<<"AppNamespace", r.AppNamespace>>, <<"AppName", r.APPName>>, <<"User", r.User>>}

\* WithAppNamespace(req.AppNamespace), WithAppName(req.APPName),
\* WithAppNamespace(req.AppNamespace), WithUser(currentUser)
GetMessageReferencesOptions(r) ==
    {<<"AppNamespace", r.AppNamespace>>, <<"AppName", r.APPName>>, <<"User", r.User>>}

\* The session calls ListConversations.
ListConversationsBegin(p) ==
    /\ pc[p] = "idle"
    /\ \E r \in APPMetadata : Enter(p, r, "ListConversations", "list_conversations")

\* return cs.Storage().ListConversations(...)
ListConversations(p) ==
    /\ pc[p] = "list_conversations"
    /\ LET opts == ListConversationsOptions(req[p])
       IN Return(p, [ok |-> TRUE, Conversations |-> ListConversationsIn(db[sb[p]], opts)],
                 Note(trace[p], "opts", Fields(opts)), trace)
    /\ UNCHANGED <<selector, returned, paged, ncalls>>

\* The session calls DeleteConversation.
DeleteConversationBegin(p) ==
    /\ pc[p] = "idle"
    /\ \E r \in DeleteRequests : Enter(p, r, "DeleteConversation", "delete_conversation")

\* return cs.Storage().Delete(...)
DeleteConversation(p) ==
    /\ pc[p] = "delete_conversation"
    /\ LET opts == DeleteConversationOptions(req[p])
       IN /\ db' = [db EXCEPT ![sb[p]] = Delete(@, opts)]
          /\ Return(p, [ok |-> TRUE], Note(trace[p], "opts", Fields(opts)), trace)
    /\ UNCHANGED <<storage, once, backends, failed, probes, returned, paged, ncalls>>

\* The session calls ListMessages.
ListMessagesBegin(p) ==
    /\ pc[p] = "idle"
    /\ \E r \in ConversationReqBody : Enter(p, r, "ListMessages", "list_messages")

\* cs.Storage().FindExistingConversation(...): its error is returned, else the
\* conversation.
ListMessages(p) ==
    /\ pc[p] = "list_messages"
    /\ LET opts == ListMessagesOptions(req[p])
           c == FindExistingConversation(db[sb[p]], req[p].ConversationID, opts)
       IN Return(p, IF c = NoConv THEN Failure("not_found")
                    ELSE [ok |-> TRUE, Conversation |-> c],
                 Note(trace[p], "opts", Fields(opts)), trace)
    /\ UNCHANGED <<selector, returned, paged, ncalls>>

\* The session calls GetMessageReferences.
GetMessageReferencesBegin(p) ==
    /\ pc[p] = "idle"
    /\ \E r \in MessageReqBody : Enter(p, r, "GetMessageReferences", "get_message_references")

\* Variant: a found message is returned with whatever references it has.
HasReferencesAlways(m) == m # NoMsg

\* m != nil && m.References != nil
HasReferences(m) == m # NoMsg /\ m.References # <<>>

\* cs.Storage().FindExistingMessage(...): its error is returned; the
\* references of the message when it has some, else an error.
GetMessageReferences(p) ==
    /\ pc[p] = "get_message_references"
    /\ LET opts == GetMessageReferencesOptions(req[p])
           m == FindExistingMessage(db[sb[p]], req[p].ConversationID, req[p].MessageID, opts)
       IN Return(p, IF m = NoMsg THEN Failure("not_found")
                    ELSE IF HasReferences(m) THEN [ok |-> TRUE, References |-> m.References]
                    ELSE Failure("conversation or message is not found"),
                 Note(trace[p], "opts", Fields(opts)), trace)
    /\ UNCHANGED <<selector, returned, paged, ncalls>>

NextSolo ==
    \E p \in Solo :
        \/ SoloAppRun(p)
        \/ StorageCheck(p)
        \/ OnceDo(p)
        \/ ProbeDatasource(p)
        \/ ProbePool(p)
        \/ ProbeAcquire(p)
        \/ ProbeConstruct(p)
        \/ StorageReturn(p)
        \/ Find(p)
        \/ NewApp(p)
        \/ Cancel(p)
        \/ SoloRun(p)
        \/ Update(p)
        \/ ListConversationsBegin(p)
        \/ ListConversations(p)
        \/ DeleteConversationBegin(p)
        \/ DeleteConversation(p)
        \/ ListMessagesBegin(p)
        \/ ListMessages(p)
        \/ GetMessageReferencesBegin(p)
        \/ GetMessageReferences(p)

SpecSolo == Init /\ [][NextSolo]_vars

\* ------------------------------------------------------------------ ListDatasources
\* page, pageSize := 1, 10
DefaultPage == 1
DefaultPageSize == 10

\* An optional integer of the input (*int): nil, or a pointer to n.
NilInt == [nil |-> TRUE]
IntPtr(n) == [nil |-> FALSE, v |-> n]

\* generated.ListCommonInput: a nil keyword and the empty keyword are the same
\* to the function.
ListCommonInput ==
    [Keyword : Keywords,
     Page : {NilInt} \cup {IntPtr(n) : n \in PageNumbers},
     PageSize : {NilInt} \cup {IntPtr(n) : n \in PageSizes}]

\* The objects the List call can return, in any order.
Datasources ==
    [Name : DatasourceNames, DisplayName : DisplayNames, CreationTimestamp : Timestamps]
ItemLists == UNION {[1..n -> Datasources] : n \in 0..MaxItems}

\* strings.Contains
Contains(str, substr) ==
    \E i \in 0..(Len(str) - Len(substr)) : SubSeq(str, i + 1, i + Len(substr)) = substr

\* if input.Page != nil && *input.Page > 0 { page = *input.Page }, and the
\* same for the page size.
Positive(ptr, default) == IF ~ptr.nil /\ ptr.v > 0 THEN ptr.v ELSE default

\* sort.Slice by creation timestamp, later first: some arrangement of the
\* items in which no item is followed by a later one (sort.Slice is not
\* stable, the order of items with the same timestamp is any).
Sorted(items) ==
    LET n == Len(items)
        perms == {f \in [1..n -> 1..n] : \A i, j \in 1..n : i # j => f[i] # f[j]}
    IN {s \in {[i \in 1..n |-> items[f[i]]] : f \in perms} :
          \A i \in 1..(n - 1) : s[i].CreationTimestamp >= s[i + 1].CreationTimestamp}

\* datasource2model: the fields of the object the listing uses.
Datasource2Model(u) ==
    [Name |-> u.Name, DisplayName |-> u.DisplayName, CreationTimestamp |-> u.CreationTimestamp]

\* The keyword filter: with a keyword, the name or the display name holds it.
KeywordMatches(m, keyword) ==
    keyword = <<>> \/ Contains(m.Name, keyword) \/ Contains(m.DisplayName, keyword)

\* Variant: the loop does not stop at the page size.
RECURSIVE CollectAll(_, _, _, _)
CollectAll(items, keyword, pageSize, result) ==
    IF items = <<>> THEN result
    ELSE LET m == Datasource2Model(Head(items))
         IN IF ~KeywordMatches(m, keyword)
               THEN CollectAll(Tail(items), keyword, pageSize, result)
               ELSE CollectAll(Tail(items), keyword, pageSize, Append(result, m))

\* The loop over datasList.Items: an item that passes the filter is appended,
\* and the loop breaks when the result has pageSize items.
RECURSIVE Collect(_, _, _, _)
Collect(items, keyword, pageSize, result) ==
    IF items = <<>> THEN result
    ELSE LET m == Datasource2Model(Head(items))
         IN IF ~KeywordMatches(m, keyword)
               THEN Collect(Tail(items), keyword, pageSize, result)
               ELSE LET r == Append(result, m)
                    IN IF Len(r) = pageSize THEN r
                       ELSE Collect(Tail(items), keyword, pageSize, r)

\* The generated.PaginatedResult of the sorted items.
PaginatedResult(items, keyword, page, pageSize) ==
    LET totalCount == Len(items)
        end == IF page * pageSize > totalCount THEN totalCount ELSE page * pageSize
    IN [ok |-> TRUE, TotalCount |-> totalCount, HasNextPage |-> end < totalCount,
        Nodes |-> Collect(items, keyword, pageSize, <<>>)]

\* ListDatasources(ctx, c, input): the List call fails and its error is
\* returned, or the listed items are sorted, filtered and cut.
ListDatasources ==
    /\ paged # NoPage
    /\ paged.result = NoResult
    /\ \/ paged' = [paged EXCEPT !.result = Failure("list")]
       \/ \E items \in Sorted(paged.listed) :
             paged' = [paged EXCEPT
                          !.items = items,
                          !.result = PaginatedResult(items, paged.input.Keyword,
                                                     Positive(paged.input.Page, DefaultPage),
                                                     Positive(paged.input.PageSize, DefaultPageSize))]
    /\ UNCHANGED <<selector, returned, pc, after, seen, sb, locals, trace>>

\* A call of ListDatasources about to be made, with any input, on a namespace
\* holding any datasources; the chat server is as constructed.
InitList ==
    /\ storage = Nil
    /\ once = "idle"
    /\ backends = <<>>
    /\ db = <<>>
    /\ failed = FALSE
    /\ probes = 0
    /\ returned = {}
    /\ pc = [p \in Sessions |-> "idle"]
    /\ after = [p \in Sessions |-> "idle"]
    /\ seen = [p \in Sessions |-> Nil]
    /\ sb = [p \in Sessions |-> Nil]
    /\ req = [p \in Sessions |-> NoReq]
    /\ conv = [p \in Sessions |-> NoConv]
    /\ history = [p \in Sessions |-> <<>>]
    /\ out = [p \in Sessions |-> NoOut]
    /\ prior = [p \in Sessions |-> <<>>]
    /\ trace = [p \in Sessions |-> NoTrace]
    /\ ret = NoRet
    /\ ncalls = 0
    /\ \E input \in ListCommonInput, listed \in ItemLists :
          paged = [input |-> input, listed |-> listed, items |-> <<>>, result |-> NoResult]

NextList == ListDatasources

SpecList == InitList /\ [][NextList]_vars

\* ------------------------------------------------------------------ properties
\* The persisted messages of conversation c in backend b.
Stored(b, c) == IF db[b][c] = NoConv THEN <<>> ELSE db[b][c].Messages

\* The message of a turn with request r whose runner returned o.
Completed(r, o) ==
    [ID |-> r.MessageID, Query |-> r.Query, Answer |-> o.Answer, References |-> o.References]

\* The message of a turn with request r as appended before the run.
Pending(r) == [ID |-> r.MessageID, Query |-> r.Query, Answer |-> "", References |-> <<>>]

\* C1: all Storage() calls return the same backend instance, and none returns
\* before the one-shot initialization has finished.
C1_OneBackendForAllCallers ==
    /\ Cardinality(returned) <= 1
    /\ returned # {} => once = "done"

\* C2: once selection has completed, if any probe step failed the selected
\* backend is the in-memory one (the relational one only if all four succeeded).
C2_AnyFailureFallsBackToMemory ==
    (once = "done" /\ failed) => backends[storage] = "memory"

\* C3: once cs.storage is set, it is never assigned a different instance.
C3_StorageAssignedOnce ==
    [][storage # Nil => storage' = storage]_vars

\* An AppRun call of p returns from its UpdateConversation call, which succeeded.
Persists(p) == pc[p] = "update" /\ pc'[p] = "idle" /\ ret'.trace.update = "ok"

\* An AppRun call of p returns an error after the new message was appended:
\* the runner could not be obtained, or its run failed.
FailsAfterAppend(p) == pc[p] \in {"newapp", "run"} /\ pc'[p] = "idle"

IDs(msgs) == {msgs[i].ID : i \in 1..Len(msgs)}

\* C4: when the application lookup fails or the application is not ready,
\* AppRun returns the error at once: no repository call, no Storage() call, no
\* runner, and the backends and their conversations are left as they were. A
\* call goes on only with a ready application.
C4_NotReadyTouchesNothing ==
    [][ncalls' # ncalls =>
          \/ \E p \in Sessions :
                pc[p] = "idle" /\ pc'[p] # "idle" /\ trace'[p].app = "ready"
          \/ /\ pc' = pc
             /\ ret'.trace.app \in {"not_ready", "get_failed"}
             /\ ret'.resp = Failure(ret'.trace.app)
             /\ ret'.trace = Note(NoTrace, "app", ret'.trace.app)
             /\ UNCHANGED <<db, storage, once, backends>>]_vars

C4_Witness ==
    /\ ret.trace.app = "not_ready"
    /\ ret.resp = Failure("not_ready")
    /\ \E b \in 1..Len(db) : \E c \in ConvIDs : Len(Stored(b, c)) > 0

\* C5: a successful new chat leaves, in the backend it wrote to, a conversation
\* with the request's ID holding exactly one message (the supplied ID, the
\* query, the runner's answer), and returns that message ID and answer.
C5_NewChatPersistsOneMessage ==
    [][\A p \in Sessions :
          (Persists(p) /\ req[p].NewChat) =>
             /\ db'[sb[p]][req[p].ConversationID] # NoConv
             /\ db'[sb[p]][req[p].ConversationID].ID = req[p].ConversationID
             /\ db'[sb[p]][req[p].ConversationID].Messages = <<Completed(req[p], out[p])>>
             /\ ret'.resp.ok
             /\ ret'.resp.MessageID = req[p].MessageID
             /\ ret'.resp.Message = out[p].Answer]_vars

C5_Witness ==
    /\ ret.trace.update = "ok"
    /\ ret.trace.find = "none"
    /\ ret.resp.ok
    /\ \E b \in 1..Len(db) : \E c \in ConvIDs :
          /\ Len(Stored(b, c)) = 1
          /\ Stored(b, c)[1].ID = ret.resp.MessageID
          /\ Stored(b, c)[1].Answer = ret.resp.Message
          /\ Stored(b, c)[1].Answer \in Answers

\* C6: the history handed to the runner of a continuing chat is the n prior
\* messages of the conversation the lookup returned, each as its query
\* followed by its answer, in their stored order, without the new query; the
\* history of a new chat is empty.
C6_HistoryIsPriorPairs ==
    \A p \in Sessions :
       pc[p] = "run" =>
          IF req[p].NewChat
             THEN history[p] = <<>>
             ELSE /\ Len(history[p]) = 2 * Len(prior[p])
                  /\ conv[p].Messages = Append(prior[p], Pending(req[p]))
                  /\ \A i \in 1..Len(prior[p]) :
                        /\ history[p][2 * i - 1] = [role |-> "human", text |-> prior[p][i].Query]
                        /\ history[p][2 * i] = [role |-> "ai", text |-> prior[p][i].Answer]

C6_Witness ==
    \E p \in Sessions :
       /\ pc[p] = "run"
       /\ ~req[p].NewChat
       /\ Len(prior[p]) = 2
       /\ prior[p][1].Answer # prior[p][2].Answer
       /\ Len(history[p]) = 4

C8_RunnerErrorNoUpdate ==
    /\ ret.trace.run = "error" =>
          /\ ret.resp = Failure("run")
          /\ ret.trace.update = "none"
          /\ ret.trace.updates = 0
    /\ \A p \in Sessions : trace[p].run # "error"

C8_Witness ==
    /\ ret.trace.run = "error"
    /\ ret.resp = Failure("run")
    /\ ret.trace.newapp = "ok"

\* C9: when the runner succeeded and UpdateConversation returns an error,
\* AppRun returns that error and no response, after a single
\* UpdateConversation call.
C9_UpdateErrorSurfaces ==
    /\ ret.trace.update = "error" =>
          /\ ret.trace.run = "ok"
          /\ ret.resp = Failure("update")
          /\ ret.trace.updates = 1
    /\ \A p \in Sessions : trace[p].updates = 0

C9_Witness ==
    /\ ret.trace.update = "error"
    /\ ret.trace.run = "ok"
    /\ ret.resp = Failure("update")

\* C10: when a new chat persists its conversation after another session
\* persisted messages under the same conversation ID during the call, the
\* stored conversation becomes exactly the later writer's sequence, its one
\* message; every message of the earlier writer with another ID is gone.
C10_LastWriteWins ==
    [][\A p \in Sessions :
          (Persists(p) /\ req[p].NewChat /\ trace[p].raced # {}) =>
             LET after_ == db'[sb[p]][req[p].ConversationID].Messages
             IN /\ after_ = conv[p].Messages
                /\ IDs(after_) = {req[p].MessageID}
                /\ Len(after_) = 1
                /\ \A m \in trace[p].raced : m # req[p].MessageID => m \notin IDs(after_)
                /\ ret'.resp.ok]_vars

C10_Witness ==
    /\ ncalls = 2
    /\ Len(db) = 1
    /\ ret.trace.update = "ok"
    /\ ret.trace.find = "none"
    /\ ret.trace.raced # {}
    /\ ret.resp.MessageID \notin ret.trace.raced
    /\ \E c \in ConvIDs : IDs(Stored(1, c)) = {ret.resp.MessageID}

\* No session other than p is inside an AppRun call.
Alone(p) == \A q \in Sessions \ {p} : ~InCall(q)

\* C11: across the successive UpdateConversation calls of AppRun calls that do
\* not overlap, new chat or not, the number of persisted messages of a
\* conversation never goes down.
C11_MessagesNeverShrink ==
    [][\A p \in Sessions :
          (Persists(p) /\ Alone(p) /\ trace[p].raced = {}) =>
             Len(db'[sb[p]][req[p].ConversationID].Messages)
                >= Len(Stored(sb[p], req[p].ConversationID))]_vars

\* C12: once a persisted message has a non-empty answer, a later AppRun call
\* with the same conversation ID and message ID, new chat or not, leaves the
\* answer stored for that message as it was.
C12_AnswerWrittenOnce ==
    [][\A p \in Sessions :
          Persists(p) =>
             LET before == Stored(sb[p], req[p].ConversationID)
                 after_ == db'[sb[p]][req[p].ConversationID].Messages
             IN \A i \in 1..Len(before) :
                   (before[i].ID = req[p].MessageID /\ before[i].Answer # "") =>
                      \A j \in 1..Len(after_) :
                         after_[j].ID = req[p].MessageID =>
                            after_[j].Answer = before[i].Answer]_vars

\* C15: the relational datasource discovery is invoked at most once in the
\* lifetime of the ChatServer, by sequential and by concurrent callers, also
\* when the probe failed; once the one-shot initialization is done, nothing is
\* probed or assigned again, and a Storage() call that starts then finds the
\* field set and returns the selected backend.
C15_ProbeAtMostOnce ==
    /\ [](probes <= 1)
    /\ [][once = "done" =>
             /\ once' = "done"
             /\ probes' = probes
             /\ storage' = storage
             /\ backends' = backends
             /\ \A p \in Sessions :
                   /\ (pc[p] = "st_check" /\ pc'[p] # "st_check") =>
                         (pc'[p] = "st_ret" /\ seen'[p] = storage)
                   /\ (pc[p] = "st_ret" /\ pc'[p] # "st_ret" /\ seen[p] = storage) =>
                         sb'[p] = storage]_vars

C15_Witness ==
    /\ once = "done"
    /\ failed
    /\ probes = 1
    /\ ncalls = 3
    /\ ret.trace.storage = 2
    /\ \E p \in Sessions : pc[p] = "update" /\ sb[p] = storage /\ seen[p] = storage

\* C16: a successful continuing chat that no other session wrote under
\* persists the messages its lookup returned, unchanged and in order, followed
\* by exactly one new message, the completed one of this turn; with a single
\* backend instance these are the messages persisted before the write.
C16_ContinuingAppendsOne ==
    [][\A p \in Sessions :
          (Persists(p) /\ ~req[p].NewChat /\ trace[p].raced = {}) =>
             LET after_ == db'[sb[p]][req[p].ConversationID].Messages
             IN /\ after_ = Append(prior[p], Completed(req[p], out[p]))
                /\ Len(after_) = Len(prior[p]) + 1
                /\ Len(db) = 1 => Stored(sb[p], req[p].ConversationID) = prior[p]
                /\ ret'.resp.ok]_vars

C16_Witness ==
    /\ ret.trace.update = "ok"
    /\ ret.trace.find = "found"
    /\ ret.trace.raced = {}
    /\ \E b \in 1..Len(db) : \E c \in ConvIDs :
          /\ Len(Stored(b, c)) = 2
          /\ Stored(b, c)[1].ID # Stored(b, c)[2].ID
          /\ Stored(b, c)[1].Answer # Stored(b, c)[2].Answer
          /\ Stored(b, c)[2].ID = ret.resp.MessageID
          /\ Stored(b, c)[2].Answer = ret.resp.Message

\* C19: the messages of every persisted conversation have pairwise distinct
\* IDs, also when a caller supplies an ID the conversation already holds.
C19_DistinctMessageIDs ==
    \A b \in 1..Len(db) : \A c \in ConvIDs :
       \A i, j \in 1..Len(Stored(b, c)) :
          i # j => Stored(b, c)[i].ID # Stored(b, c)[j].ID

\* C13: the repository call of each of ListConversations, ListMessages,
\* GetMessageReferences and DeleteConversation is restricted by the application
\* name, the application namespace and the user.
C13_AllScopedByAppAndUser ==
    ret.trace.op # "none" => {"AppName", "AppNamespace", "User"} \subseteq ret.trace.opts

\* Conversation c is no match for the lookup of request r: there is none, or
\* its application name, namespace or debug flag is another one, or r has a
\* user who is not its owner.
Mismatch(c, r) ==
    \/ c = NoConv
    \/ c.AppName # r.APPName
    \/ c.AppNamespace # r.AppNamespace
    \/ c.Debug # r.Debug
    \/ (r.User # "" /\ c.User # r.User)

\* C14: a continuing chat of an authenticated user u goes past the lookup
\* only with the stored conversation of the requested ID, whose application
\* name, namespace and debug flag are the request's and whose owner is u: that
\* conversation is the one replayed and extended, and the one persisted is
\* still u's, under the same application and debug flag.
C14_ContinuingChatScoped ==
    [][\A p \in Sessions :
          /\ (pc[p] = "find" /\ pc'[p] = "newapp" /\ req[p].User # "") =>
                LET c == db[sb[p]][req[p].ConversationID]
                IN /\ c # NoConv
                   /\ c.ID = req[p].ConversationID
                   /\ c.AppName = req[p].APPName
                   /\ c.AppNamespace = req[p].AppNamespace
                   /\ c.Debug = req[p].Debug
                   /\ c.User = req[p].User
                   /\ prior'[p] = c.Messages
                   /\ Len(history'[p]) = 2 * Len(c.Messages)
                   /\ conv'[p] = [c EXCEPT !.Messages = Append(@, Pending(req[p]))]
          /\ (Persists(p) /\ ~req[p].NewChat /\ req[p].User # "") =>
                LET c == db'[sb[p]][req[p].ConversationID]
                IN /\ c.User = req[p].User
                   /\ c.AppName = req[p].APPName
                   /\ c.AppNamespace = req[p].AppNamespace
                   /\ c.Debug = req[p].Debug]_vars

C14_Witness ==
    \E p \in Sessions :
       /\ pc[p] = "run"
       /\ ~req[p].NewChat
       /\ req[p].User = "u2"
       /\ req[p].Debug
       /\ req[p].APPName = "app2"
       /\ req[p].AppNamespace = "ns2"
       /\ Len(prior[p]) = 1
       /\ conv[p].User = "u2"
       /\ Len(conv[p].Messages) = 2

\* C17: when the caller's context was cancelled while the call of the runner
\* was outstanding, the AppRun call issues no UpdateConversation, whatever
\* the runner returned.
C17_CancelledNeverUpdates ==
    ret.trace.ctx = "cancelled" => (ret.trace.update = "none" /\ ret.trace.updates = 0)

\* C18: when the lookup of a continuing chat has no stored conversation that
\* matches the ID and the scoping predicates, AppRun returns the not-found
\* error: no runner was obtained or run, no message was appended to any
\* conversation, no UpdateConversation was issued and the repository is as it
\* was.
C18_NoMatchNoRun ==
    [][\A p \in Sessions :
          (pc[p] = "find" /\ pc'[p] # "find"
              /\ Mismatch(db[sb[p]][req[p].ConversationID], req[p])) =>
             /\ pc'[p] = "idle"
             /\ ret'.resp = Failure("not_found")
             /\ ret'.trace.find = "not_found"
             /\ ret'.trace.newapp = "none"
             /\ ret'.trace.run = "none"
             /\ ret'.trace.update = "none"
             /\ ret'.trace.updates = 0
             /\ conv[p] = NoConv
             /\ conv'[p] = NoConv
             /\ db' = db]_vars

C18_Witness ==
    /\ ret.resp = Failure("not_found")
    /\ ret.trace.find = "not_found"
    /\ ret.trace.app = "ready"
    /\ ncalls = 2
    /\ \E b \in 1..Len(db) : \E c \in ConvIDs :
          /\ Len(Stored(b, c)) = 1
          /\ Stored(b, c)[1].Answer # ""

\* C20: GetMessageReferences returns a list of references only when a stored
\* message with the requested ID, in the conversation matching the ID and
\* the scoping predicates, has references, and then returns those; when the
\* messages with that ID have none (References nil), it returns an error
\* though the message exists; when there is no such message it returns the
\* repository's error. The repository is left as it was.
C20_ReferencesOnlyWhenPresent ==
    [][\A p \in Sessions :
          (pc[p] = "get_message_references" /\ pc'[p] = "idle") =>
             LET c == db[sb[p]][req[p].ConversationID]
                 hits == IF \/ c = NoConv
                            \/ c.AppName # req[p].APPName
                            \/ c.AppNamespace # req[p].AppNamespace
                            \/ c.User # req[p].User
                            THEN {}
                            ELSE {i \in 1..Len(c.Messages) : c.Messages[i].ID = req[p].MessageID}
             IN /\ ret'.resp.ok =>
                      \E i \in hits : /\ c.Messages[i].References # <<>>
                                      /\ ret'.resp.References = c.Messages[i].References
                /\ (hits # {} /\ \A i \in hits : c.Messages[i].References = <<>>) =>
                      ret'.resp = Failure("conversation or message is not found")
                /\ hits = {} => ret'.resp = Failure("not_found")
                /\ db' = db]_vars

C20_Witness ==
    /\ ret.trace.op = "GetMessageReferences"
    /\ ret.resp = Failure("conversation or message is not found")
    /\ \E b \in 1..Len(db) : \E c \in ConvIDs :
          /\ Len(Stored(b, c)) = 1
          /\ Stored(b, c)[1].Answer # ""
          /\ Stored(b, c)[1].References = <<>>

\* C21: a continuing chat without an authenticated user (empty user name)
\* goes past the lookup whenever a conversation with the requested ID, the
\* request's application name, namespace and debug flag is stored, whoever
\* its owner is: that conversation is replayed and extended, and the one
\* persisted keeps the owner it had.
C21_AnonymousContinuesAnyOwner ==
    [][\A p \in Sessions :
          /\ (pc[p] = "find" /\ pc'[p] # "find" /\ req[p].User = "") =>
                LET c == db[sb[p]][req[p].ConversationID]
                IN (/\ c # NoConv
                    /\ c.AppName = req[p].APPName
                    /\ c.AppNamespace = req[p].AppNamespace
                    /\ c.Debug = req[p].Debug) =>
                      /\ pc'[p] = "newapp"
                      /\ prior'[p] = c.Messages
                      /\ Len(history'[p]) = 2 * Len(c.Messages)
                      /\ conv'[p] = [c EXCEPT !.Messages = Append(@, Pending(req[p]))]
                      /\ conv'[p].User = c.User
          /\ (Persists(p) /\ ~req[p].NewChat /\ req[p].User = "") =>
                /\ db[sb[p]][req[p].ConversationID] # NoConv
                /\ db'[sb[p]][req[p].ConversationID].User
                      = db[sb[p]][req[p].ConversationID].User
                /\ db'[sb[p]][req[p].ConversationID].Messages
                      = Append(db[sb[p]][req[p].ConversationID].Messages,
                               Completed(req[p], out[p]))]_vars

C21_Witness ==
    \E p \in Sessions :
       /\ pc[p] = "update"
       /\ ~req[p].NewChat
       /\ req[p].User = ""
       /\ conv[p].User = "u2"
       /\ Len(conv[p].Messages) = 2
       /\ db[sb[p]][req[p].ConversationID].User = "u2"

\* How many times d occurs in the sequence.
Count(seq, d) == Cardinality({i \in 1..Len(seq) : seq[i] = d})

\* C22: whatever the page number and the page size, the Nodes of
\* ListDatasources are the first min(pageSize, number of keyword matches)
\* keyword-matching datasources of the listed items arranged newest first,
\* the page number having no part in the window; TotalCount is the number of
\* listed items, filtered or not, and HasNextPage is TRUE exactly when
\* page * pageSize < TotalCount. A page number or size that is missing or not
\* positive counts as 1, respectively 10.
C22_PageNeverShiftsWindow ==
    (paged # NoPage /\ paged.result # NoResult /\ paged.result.ok) =>
       LET page == IF paged.input.Page.nil \/ paged.input.Page.v <= 0
                      THEN 1 ELSE paged.input.Page.v
           pageSize == IF paged.input.PageSize.nil \/ paged.input.PageSize.v <= 0
                          THEN 10 ELSE paged.input.PageSize.v
           keyword == paged.input.Keyword
           matches == SelectSeq(paged.items,
                                LAMBDA u : \/ keyword = <<>>
                                           \/ Contains(u.Name, keyword)
                                           \/ Contains(u.DisplayName, keyword))
           k == IF pageSize < Len(matches) THEN pageSize ELSE Len(matches)
       IN /\ \A d \in Datasources : Count(paged.items, d) = Count(paged.listed, d)
          /\ \A i, j \in 1..Len(paged.items) :
                i < j => paged.items[i].CreationTimestamp >= paged.items[j].CreationTimestamp
          /\ paged.result.Nodes = SubSeq(matches, 1, k)
          /\ paged.result.TotalCount = Len(paged.listed)
          /\ paged.result.HasNextPage <=> (page * pageSize < paged.result.TotalCount)

C22_Witness ==
    /\ paged # NoPage
    /\ paged.result # NoResult
    /\ paged.result.ok
    /\ paged.input.Page = IntPtr(2)
    /\ paged.input.PageSize = IntPtr(1)
    /\ paged.input.Keyword = <<"b">>
    /\ Len(paged.items) = 3
    /\ paged.result.TotalCount = 3
    /\ paged.result.HasNextPage
    /\ Len(paged.result.Nodes) = 1
    /\ paged.result.Nodes[1] = paged.items[2]
    /\ paged.result.Nodes[1] # paged.items[1]
    /\ KeywordMatches(paged.items[3], <<"b">>)

====
